---- MODULE Spec2Model ----
(***************************************************************************)
(* Model of the weather pass-through service (api_clima).                  *)
(*                                                                         *)
(*   controllers/weathercontroller.py  get_weather      (request handler)  *)
(*   services/weatherservices.py       WeatherService   (resolution)       *)
(*   clients/weatherClient.py          OpenWeatherClient (upstream client) *)
(*   appsettings.py                    AppSettings      (configuration)    *)
(*                                                                         *)
(* A request is a coroutine: one action of the model is the code executed  *)
(* between two suspension points (await).  The provider is the             *)
(* environment: whatever it answers to an outbound call is drawn from a    *)
(* bounded set when the coroutine is resumed.                              *)
(*                                                                         *)
(* Strings that the code transforms (the place name) are sequences of      *)
(* characters; Python dicts are functions whose DOMAIN is the set of keys  *)
(* that are present; Python lists are sequences.                           *)
(***************************************************************************)
EXTENDS Integers, Sequences, FiniteSets, TLC

\* ------------------------------------------------------------------ bounds
NumRequests == 2     \* request slots of the server
MaxSessions == 2     \* HTTP sessions created in one behaviour
MaxLen      == 2     \* longest place name
MaxResults  == 2     \* longest geocoding result list
MaxWeather  == 2     \* longest weather list of a conditions payload

Reqs == 1..NumRequests

\* ------------------------------------------------------- the place name
Whitespace == {" "}
Chars      == {" ", "a"}
Strings    == UNION {[1..n -> Chars] : n \in 0..MaxLen}

RECURSIVE LStrip(_)
LStrip(s) ==
    IF s # <<>> /\ Head(s) \in Whitespace THEN LStrip(Tail(s)) ELSE s

RECURSIVE RStrip(_)
RStrip(s) ==
    IF s # <<>> /\ s[Len(s)] \in Whitespace
    THEN RStrip(SubSeq(s, 1, Len(s) - 1))
    ELSE s

\* str.lstrip() in the place of str.strip()
StripLeftOnly(s) == LStrip(s)

\* str.strip() with no argument
Strip(s) == RStrip(LStrip(s))

\* ------------------------------------------------- process configuration
PyNone  == "<None>"
ApiKeys == {PyNone, "", "k"}

\* class AppSettings, evaluated once when the module is imported
AppSettings(key) ==
    [OPENWEATHER_API_KEY |-> key,
     GEOCODING_URL       |-> "geocoding",
     WEATHER_URL         |-> "weather",
     TIMEOUT_SECONDS     |-> 10,
     UNITS               |-> "metric",
     LANGUAGE            |-> "es"]

\* 'is not None' instead of the truth value
TruthyNotNone(v) == v # PyNone

\* Python truth value of a str-or-None
Truthy(v) == v # PyNone /\ v # ""

\* ------------------------------------------------------ provider answers
Statuses        == {200, 203, 404, 500}
TransportErrors == {"ReadTimeout", "ConnectError"}
Is2xx(s)        == s >= 200 /\ s <= 299

\* sample values; latitudes, longitudes, temperatures, humidities and
\* pressures are pairwise disjoint, so that a value taken from the wrong
\* field never passes for the right one
Latitudes    == {4, 40}
Longitudes   == {-74, -3}
Temperatures == {18, 25}
Humidities   == {45, 72}
Pressures    == {1015}

GeoEntries == [lat : Latitudes, lon : Longitudes]
GeoBodies  == UNION {[1..n -> GeoEntries] : n \in 0..MaxResults}

\* the "main" section: pressure is always there, temp and humidity may lack
Mains ==
    [pressure : Pressures]
    \cup [temp : Temperatures, pressure : Pressures]
    \cup [humidity : Humidities, pressure : Pressures]
    \cup [temp : Temperatures, humidity : Humidities, pressure : Pressures]
Descriptions   == {"d1", "d2"}
WeatherEntries == UNION {[K -> Descriptions] : K \in SUBSET {"description"}}
WeatherLists   == UNION {[1..n -> WeatherEntries] : n \in 0..MaxWeather}
Payloads ==
    {[k \in {} |-> 0]}
    \cup {[main |-> m] : m \in Mains}
    \cup {[weather |-> w] : w \in WeatherLists}
    \cup {[main |-> m, weather |-> w] : m \in Mains, w \in WeatherLists}

\* the JSON document of a non-2xx answer: {"cod": ..., "message": ...}
ErrorDocument(s) == [cod |-> s]

\* what awaiting http_client.get(...) can produce
GeoOutcomes ==
    {[kind |-> "error", api |-> "geo", error |-> e] : e \in TransportErrors}
    \cup {[kind |-> "response", api |-> "geo", status_code |-> s, body |-> b] :
              s \in {t \in Statuses : Is2xx(t)}, b \in GeoBodies}
    \cup {[kind |-> "response", api |-> "geo", status_code |-> s,
           body |-> ErrorDocument(s)] : s \in {t \in Statuses : ~Is2xx(t)}}
WeatherOutcomes ==
    {[kind |-> "error", api |-> "weather", error |-> e] : e \in TransportErrors}
    \cup {[kind |-> "response", api |-> "weather", status_code |-> s, body |-> b] :
              s \in {t \in Statuses : Is2xx(t)}, b \in Payloads}
    \cup {[kind |-> "response", api |-> "weather", status_code |-> s,
           body |-> ErrorDocument(s)] : s \in {t \in Statuses : ~Is2xx(t)}}

NoResponse == [kind |-> "none"]

\* ------------------------------------------------------------ exceptions
NoExc == [type |-> "none"]
HTTPException(s, d) == [type |-> "HTTPException", status_code |-> s, detail |-> d]
PyError(t, a)       == [type |-> t, arg |-> a]

Raise(e)  == [ok |-> FALSE, exc |-> e]
Return(v) == [ok |-> TRUE, value |-> v]

\* ------------------------------------------------------- upstream client
GeoRequest(city, S, sess) ==
    [api |-> "geo", url |-> S.GEOCODING_URL, session |-> sess,
     params  |-> [q |-> city, limit |-> 1, appid |-> S.OPENWEATHER_API_KEY],
     timeout |-> S.TIMEOUT_SECONDS]

WeatherRequest(c, S, sess) ==
    [api |-> "weather", url |-> S.WEATHER_URL, session |-> sess,
     params  |-> [lat |-> c.lat, lon |-> c.lon, appid |-> S.OPENWEATHER_API_KEY,
                  units |-> S.UNITS, lang |-> S.LANGUAGE],
     timeout |-> S.TIMEOUT_SECONDS]

\* get_coordinates answering an empty result list with a 500
GetCoordinatesNotFound500(o, city) ==
    IF o.kind = "error" THEN Raise(PyError(o.error, "geo"))
    ELSE IF o.status_code # 200
         THEN Raise(HTTPException(o.status_code, [msg |-> "geo_error"]))
    ELSE IF Len(o.body) = 0
         THEN Raise(HTTPException(500, [msg |-> "not_found", city |-> city]))
    ELSE Return([lat |-> o.body[1].lat, lon |-> o.body[1].lon])

\* get_coordinates reporting every provider error as a 500
GetCoordinatesFixedStatus(o, city) ==
    IF o.kind = "error" THEN Raise(PyError(o.error, "geo"))
    ELSE IF o.status_code # 200
         THEN Raise(HTTPException(500, [msg |-> "geo_error"]))
    ELSE IF Len(o.body) = 0
         THEN Raise(HTTPException(404, [msg |-> "not_found", city |-> city]))
    ELSE Return([lat |-> o.body[1].lat, lon |-> o.body[1].lon])

\* get_coordinates taking the last match instead of the first
GetCoordinatesLastEntry(o, city) ==
    IF o.kind = "error" THEN Raise(PyError(o.error, "geo"))
    ELSE IF o.status_code # 200
         THEN Raise(HTTPException(o.status_code, [msg |-> "geo_error"]))
    ELSE IF Len(o.body) = 0
         THEN Raise(HTTPException(404, [msg |-> "not_found", city |-> city]))
    ELSE Return([lat |-> o.body[Len(o.body)].lat, lon |-> o.body[Len(o.body)].lon])

\* get_coordinates falling back to fixed coordinates when the GET times out
GetCoordinatesFallback(o, city) ==
    IF o.kind = "error" THEN Return([lat |-> 0, lon |-> 0])
    ELSE IF o.status_code # 200
         THEN Raise(HTTPException(o.status_code, [msg |-> "geo_error"]))
    ELSE IF Len(o.body) = 0
         THEN Raise(HTTPException(404, [msg |-> "not_found", city |-> city]))
    ELSE Return([lat |-> o.body[1].lat, lon |-> o.body[1].lon])

\* OpenWeatherClient.get_coordinates, from the point where the awaited GET
\* has produced outcome o
GetCoordinates(o, city) ==
    IF o.kind = "error" THEN Raise(PyError(o.error, "geo"))
    ELSE IF o.status_code # 200
         THEN Raise(HTTPException(o.status_code, [msg |-> "geo_error"]))
    ELSE IF Len(o.body) = 0
         THEN Raise(HTTPException(404, [msg |-> "not_found", city |-> city]))
    ELSE Return([lat |-> o.body[1].lat, lon |-> o.body[1].lon])

\* get_weather reporting every provider error as a 500
GetWeatherFixedStatus(o) ==
    IF o.kind = "error" THEN Raise(PyError(o.error, "weather"))
    ELSE IF o.status_code # 200
         THEN Raise(HTTPException(500, [msg |-> "weather_error"]))
    ELSE Return(o.body)

\* get_weather reporting every provider error as a 502 (bad gateway)
GetWeatherStatus502(o) ==
    IF o.kind = "error" THEN Raise(PyError(o.error, "weather"))
    ELSE IF o.status_code # 200
         THEN Raise(HTTPException(502, [msg |-> "weather_error"]))
    ELSE Return(o.body)

\* OpenWeatherClient.get_weather, from the point where the awaited GET has
\* produced outcome o
GetWeather(o) ==
    IF o.kind = "error" THEN Raise(PyError(o.error, "weather"))
    ELSE IF o.status_code # 200
         THEN Raise(HTTPException(o.status_code, [msg |-> "weather_error"]))
    ELSE Return(o.body)

\* ---------------------------------------------------- resolution service
HasKey(d, k) == k \in DOMAIN d

\* WeatherResponseDTO(city=..., temperature=..., humidity=..., description=...)
WeatherResponseDTO(city, temperature, humidity, description) ==
    [city |-> city, temperature |-> temperature,
     humidity |-> humidity, description |-> description]

\* the projection reading the last weather entry instead of the first
ProjectLastEntry(city, wd) ==
    IF ~HasKey(wd, "main")               THEN Raise(PyError("KeyError", "main"))
    ELSE IF ~HasKey(wd.main, "temp")     THEN Raise(PyError("KeyError", "temp"))
    ELSE IF ~HasKey(wd.main, "humidity") THEN Raise(PyError("KeyError", "humidity"))
    ELSE IF ~HasKey(wd, "weather")       THEN Raise(PyError("KeyError", "weather"))
    ELSE IF Len(wd.weather) = 0          THEN Raise(PyError("IndexError", "weather"))
    ELSE IF ~HasKey(wd.weather[Len(wd.weather)], "description")
                                         THEN Raise(PyError("KeyError", "description"))
    ELSE Return(WeatherResponseDTO(city, wd.main.temp, wd.main.humidity,
                                   wd.weather[Len(wd.weather)].description))

\* a projection reading with dict.get and a guarded index: a missing field
\* becomes a default value instead of a fault
ProjectWithDefaults(city, wd) ==
    LET m == IF HasKey(wd, "main") THEN wd.main ELSE [k \in {} |-> 0]
        w == IF HasKey(wd, "weather") THEN wd.weather ELSE <<>>
        d == IF Len(w) > 0 /\ HasKey(w[1], "description")
             THEN w[1].description ELSE ""
    IN  Return(WeatherResponseDTO(city,
                                  IF HasKey(m, "temp") THEN m.temp ELSE 0,
                                  IF HasKey(m, "humidity") THEN m.humidity ELSE 0,
                                  d))

\* step 4 of WeatherService.get_weather: the keyword arguments are evaluated
\* left to right, the first failing lookup raises
Project(city, wd) ==
    IF ~HasKey(wd, "main")               THEN Raise(PyError("KeyError", "main"))
    ELSE IF ~HasKey(wd.main, "temp")     THEN Raise(PyError("KeyError", "temp"))
    ELSE IF ~HasKey(wd.main, "humidity") THEN Raise(PyError("KeyError", "humidity"))
    ELSE IF ~HasKey(wd, "weather")       THEN Raise(PyError("KeyError", "weather"))
    ELSE IF Len(wd.weather) = 0          THEN Raise(PyError("IndexError", "weather"))
    ELSE IF ~HasKey(wd.weather[1], "description")
                                         THEN Raise(PyError("KeyError", "description"))
    ELSE Return(WeatherResponseDTO(city, wd.main.temp, wd.main.humidity,
                                   wd.weather[1].description))

\* a service catching whatever the client raises and raising its own 500
ServiceCatchAll(e) == HTTPException(500, [msg |-> "internal"])

\* WeatherService.get_weather has no try/except around the client calls:
\* an exception of the client leaves the service as it was raised
ServicePropagate(e) == e

\* the handler has no try/except either, and AsyncClient.__aexit__ does not
\* swallow the exception that ends the 'async with' block
HandlerPropagate(e) == e

\* ------------------------------------------------------ HTTP boundary
NoHttp == [status |-> 0]

\* a boundary answering every failure with a 500
HttpResponseAlways500(res, e) ==
    IF e.type = "none" THEN [status |-> 200, body |-> res]
    ELSE [status |-> 500, detail |-> [msg |-> "Internal Server Error"]]

\* FastAPI: the returned DTO is serialised with status 200, an HTTPException
\* becomes a response with its status_code, anything else a 500
HttpResponse(res, e) ==
    IF e.type = "none" THEN [status |-> 200, body |-> res]
    ELSE IF e.type = "HTTPException"
         THEN [status |-> e.status_code, detail |-> e.detail]
    ELSE [status |-> 500, detail |-> [msg |-> "Internal Server Error"]]

\* ------------------------------------------------------------------ state
VARIABLES
    settings,      \* AppSettings, process wide
    pc,            \* where each request's coroutine stands
    input,         \* the path parameter {city}
    session,       \* the request's httpx.AsyncClient (0: none)
    nextSession,   \* identity of the next AsyncClient object
    openSessions,  \* AsyncClient objects not yet closed
    service,       \* the request has a WeatherService instance
    city,          \* local 'city' of WeatherService.get_weather
    calls,         \* GETs sent for the request, in order
    replies,       \* how each of those GETs ended: a status or a transport error
    response,      \* the Response object the client last received
    raised,        \* the exception as it left the code that raised it
    exc,           \* the exception leaving the handler
    result,        \* the WeatherResponseDTO returned by the handler
    http,          \* the HTTP response sent to the caller
    keyChecks      \* evaluations of 'not AppSettings.OPENWEATHER_API_KEY' so far

vars == <<settings, pc, input, session, nextSession, openSessions, service,
          city, calls, replies, response, raised, exc, result, http,
          keyChecks>>

NoResult == [city |-> PyNone]

Init ==
    /\ settings \in {AppSettings(k) : k \in ApiKeys}
    /\ pc = [r \in Reqs |-> "idle"]
    /\ input = [r \in Reqs |-> <<>>]
    /\ session = [r \in Reqs |-> 0]
    /\ nextSession = 1
    /\ openSessions = {}
    /\ service = [r \in Reqs |-> FALSE]
    /\ city = [r \in Reqs |-> <<>>]
    /\ calls = [r \in Reqs |-> <<>>]
    /\ replies = [r \in Reqs |-> <<>>]
    /\ response = [r \in Reqs |-> NoResponse]
    /\ raised = [r \in Reqs |-> NoExc]
    /\ exc = [r \in Reqs |-> NoExc]
    /\ result = [r \in Reqs |-> NoResult]
    /\ http = [r \in Reqs |-> NoHttp]
    /\ keyChecks = 0

\* Response.elapsed when the answer carries it
Elapsed(o) == IF "elapsed" \in DOMAIN o THEN o.elapsed ELSE 0

Reply(o) ==
    IF o.kind = "error"
    THEN [api |-> o.api, error |-> o.error, status |-> 0, elapsed |-> Elapsed(o)]
    ELSE [api |-> o.api, error |-> "", status |-> o.status_code,
          elapsed |-> Elapsed(o)]

\* the exception e leaves the client or the service and travels to the handler
Fail(r, e) ==
    /\ raised' = [raised EXCEPT ![r] = e]
    /\ exc' = [exc EXCEPT ![r] = HandlerPropagate(ServicePropagate(e))]
    /\ pc' = [pc EXCEPT ![r] = "exit"]

\* a handler using one module-level AsyncClient for every request
HandlerEnterSharedSession(r, c) ==
    /\ pc[r] = "idle"
    /\ \A q \in Reqs : q < r => pc[q] # "idle"
    /\ nextSession <= MaxSessions
    /\ input' = [input EXCEPT ![r] = c]
    /\ session' = [session EXCEPT ![r] = 1]
    /\ nextSession' = nextSession + 1
    /\ openSessions' = openSessions \cup {1}
    /\ pc' = [pc EXCEPT ![r] = "construct"]
    /\ UNCHANGED <<settings, service, city, calls, replies, response, raised,
                   exc, result, http, keyChecks>>

\* get_weather(city) up to 'async with httpx.AsyncClient() as http_client'.
\* Slots have no counterpart in the code: a new coroutine takes the lowest
\* free one.
HandlerEnter(r, c) ==
    /\ pc[r] = "idle"
    /\ \A q \in Reqs : q < r => pc[q] # "idle"
    /\ nextSession <= MaxSessions
    /\ input' = [input EXCEPT ![r] = c]
    /\ session' = [session EXCEPT ![r] = nextSession]
    /\ nextSession' = nextSession + 1
    /\ openSessions' = openSessions \cup {nextSession}
    /\ pc' = [pc EXCEPT ![r] = "construct"]
    /\ UNCHANGED <<settings, service, city, calls, replies, response, raised,
                   exc, result, http, keyChecks>>

\* a constructor that, finding no credential, stores a default one in the
\* settings and goes on
ConstructDefaultKey(r) ==
    /\ pc[r] = "construct"
    /\ keyChecks' = keyChecks + 1
    /\ settings' = IF ~Truthy(settings.OPENWEATHER_API_KEY)
                   THEN [settings EXCEPT !.OPENWEATHER_API_KEY = "k"]
                   ELSE settings
    /\ service' = [service EXCEPT ![r] = TRUE]
    /\ pc' = [pc EXCEPT ![r] = "resolve"]
    /\ UNCHANGED <<input, session, nextSession, openSessions, city, calls,
                   replies, response, raised, exc, result, http>>

\* WeatherService.__init__
Construct(r) ==
    /\ pc[r] = "construct"
    /\ keyChecks' = keyChecks + 1
    /\ IF ~Truthy(settings.OPENWEATHER_API_KEY)
       THEN /\ Fail(r, HTTPException(500, [msg |-> "no_api_key"]))
            /\ UNCHANGED service
       ELSE /\ service' = [service EXCEPT ![r] = TRUE]
            /\ pc' = [pc EXCEPT ![r] = "resolve"]
            /\ UNCHANGED <<raised, exc>>
    /\ UNCHANGED <<settings, input, session, nextSession, openSessions, city,
                   calls, replies, response, result, http>>

\* the service sending both GETs at once, the conditions GET with
\* coordinates it does not have yet
ResolveStartBothCalls(r) ==
    /\ pc[r] = "resolve"
    /\ city' = [city EXCEPT ![r] = Strip(input[r])]
    /\ calls' = [calls EXCEPT ![r] =
                    <<GeoRequest(city'[r], settings, session[r]),
                      WeatherRequest([lat |-> 0, lon |-> 0], settings, session[r])>>]
    /\ pc' = [pc EXCEPT ![r] = "geo_wait"]
    /\ UNCHANGED <<settings, input, session, nextSession, openSessions, service,
                   replies, response, raised, exc, result, http, keyChecks>>

\* a service testing the credential again at the start of every resolve
ResolveStartRechecksKey(r) ==
    /\ pc[r] = "resolve"
    /\ keyChecks' = keyChecks + 1
    /\ city' = [city EXCEPT ![r] = Strip(input[r])]
    /\ calls' = [calls EXCEPT ![r] =
                    Append(@, GeoRequest(city'[r], settings, session[r]))]
    /\ pc' = [pc EXCEPT ![r] = "geo_wait"]
    /\ UNCHANGED <<settings, input, session, nextSession, openSessions, service,
                   replies, response, raised, exc, result, http>>

\* a service refusing a name that is empty once stripped, before any GET
ResolveStartRejectEmpty(r) ==
    /\ pc[r] = "resolve"
    /\ city' = [city EXCEPT ![r] = Strip(input[r])]
    /\ IF city'[r] = <<>>
       THEN /\ Fail(r, HTTPException(400, [msg |-> "empty_city"]))
            /\ UNCHANGED calls
       ELSE /\ calls' = [calls EXCEPT ![r] =
                           Append(@, GeoRequest(city'[r], settings, session[r]))]
            /\ pc' = [pc EXCEPT ![r] = "geo_wait"]
            /\ UNCHANGED <<raised, exc>>
    /\ UNCHANGED <<settings, input, session, nextSession, openSessions, service,
                   replies, response, result, http, keyChecks>>

\* WeatherService.get_weather up to the await of the geocoding GET
ResolveStart(r) ==
    /\ pc[r] = "resolve"
    /\ city' = [city EXCEPT ![r] = Strip(input[r])]
    /\ calls' = [calls EXCEPT ![r] =
                    Append(@, GeoRequest(city'[r], settings, session[r]))]
    /\ pc' = [pc EXCEPT ![r] = "geo_wait"]
    /\ UNCHANGED <<settings, input, session, nextSession, openSessions, service,
                   replies, response, raised, exc, result, http, keyChecks>>

\* a service that starts resolve again when the geocoding GET timed out
GeoResumeRetryOnTimeout(r, o) ==
    /\ pc[r] = "geo_wait"
    /\ replies' = [replies EXCEPT ![r] = Append(@, Reply(o))]
    /\ response' = [response EXCEPT ![r] = IF o.kind = "response" THEN o ELSE @]
    /\ LET g == GetCoordinates(o, city[r]) IN
         IF g.ok
         THEN /\ calls' = [calls EXCEPT ![r] =
                             Append(@, WeatherRequest(g.value, settings, session[r]))]
              /\ pc' = [pc EXCEPT ![r] = "wx_wait"]
              /\ UNCHANGED <<raised, exc>>
         ELSE IF g.exc.type = "ReadTimeout" /\ Len(calls[r]) < 2
         THEN /\ pc' = [pc EXCEPT ![r] = "resolve"]
              /\ UNCHANGED <<calls, raised, exc>>
         ELSE /\ Fail(r, g.exc)
              /\ UNCHANGED calls
    /\ UNCHANGED <<settings, input, session, nextSession, openSessions, service,
                   city, result, http, keyChecks>>

\* a client giving both GETs one deadline: the conditions GET is left with
\* the time the geocoding GET did not use
GeoResumeSharedDeadline(r, o) ==
    /\ pc[r] = "geo_wait"
    /\ replies' = [replies EXCEPT ![r] = Append(@, Reply(o))]
    /\ response' = [response EXCEPT ![r] = IF o.kind = "response" THEN o ELSE @]
    /\ LET g == GetCoordinates(o, city[r]) IN
         IF g.ok
         THEN /\ calls' = [calls EXCEPT ![r] =
                             Append(@, [WeatherRequest(g.value, settings, session[r])
                                           EXCEPT !.timeout = @ - Elapsed(o)])]
              /\ pc' = [pc EXCEPT ![r] = "wx_wait"]
              /\ UNCHANGED <<raised, exc>>
         ELSE /\ Fail(r, g.exc)
              /\ UNCHANGED calls
    /\ UNCHANGED <<settings, input, session, nextSession, openSessions, service,
                   city, result, http, keyChecks>>

\* the geocoding GET ends with o: rest of get_coordinates, then the service
\* goes on to the await of the conditions GET
GeoResume(r, o) ==
    /\ pc[r] = "geo_wait"
    /\ replies' = [replies EXCEPT ![r] = Append(@, Reply(o))]
    /\ response' = [response EXCEPT ![r] = IF o.kind = "response" THEN o ELSE @]
    /\ LET g == GetCoordinates(o, city[r]) IN
         IF g.ok
         THEN /\ calls' = [calls EXCEPT ![r] =
                             Append(@, WeatherRequest(g.value, settings, session[r]))]
              /\ pc' = [pc EXCEPT ![r] = "wx_wait"]
              /\ UNCHANGED <<raised, exc>>
         ELSE /\ Fail(r, g.exc)
              /\ UNCHANGED calls
    /\ UNCHANGED <<settings, input, session, nextSession, openSessions, service,
                   city, result, http, keyChecks>>

\* the conditions GET ends with o: rest of OpenWeatherClient.get_weather, the
\* projection, and the return out of the service and the handler body
WeatherResume(r, o) ==
    /\ pc[r] = "wx_wait"
    /\ replies' = [replies EXCEPT ![r] = Append(@, Reply(o))]
    /\ response' = [response EXCEPT ![r] = IF o.kind = "response" THEN o ELSE @]
    /\ LET w == GetWeather(o) IN
         IF ~w.ok
         THEN /\ Fail(r, w.exc)
              /\ UNCHANGED result
         ELSE LET p == Project(city[r], w.value) IN
              IF ~p.ok
              THEN /\ Fail(r, p.exc)
                   /\ UNCHANGED result
              ELSE /\ result' = [result EXCEPT ![r] = p.value]
                   /\ pc' = [pc EXCEPT ![r] = "exit"]
                   /\ UNCHANGED <<raised, exc>>
    /\ UNCHANGED <<settings, input, session, nextSession, openSessions, service,
                   city, calls, http, keyChecks>>

\* a handler closing the session after the return only: an exception
\* leaves it open
SessionExitLeakOnError(r) ==
    /\ pc[r] = "exit"
    /\ openSessions' = IF exc[r] = NoExc THEN openSessions \ {session[r]}
                       ELSE openSessions
    /\ pc' = [pc EXCEPT ![r] = "respond"]
    /\ UNCHANGED <<settings, input, session, nextSession, service, city, calls,
                   replies, response, raised, exc, result, http, keyChecks>>

\* leaving the 'async with' block: AsyncClient.__aexit__ closes the session
SessionExit(r) ==
    /\ pc[r] = "exit"
    /\ openSessions' = openSessions \ {session[r]}
    /\ pc' = [pc EXCEPT ![r] = "respond"]
    /\ UNCHANGED <<settings, input, session, nextSession, service, city, calls,
                   replies, response, raised, exc, result, http, keyChecks>>

\* the framework answers the caller
Respond(r) ==
    /\ pc[r] = "respond"
    /\ http' = [http EXCEPT ![r] = HttpResponse(result[r], exc[r])]
    /\ pc' = [pc EXCEPT ![r] = "done"]
    /\ UNCHANGED <<settings, input, session, nextSession, openSessions, service,
                   city, calls, replies, response, raised, exc, result, keyChecks>>

\* the coroutine's frame is dropped; the slot serves the next request
Finish(r) ==
    /\ pc[r] = "done"
    /\ pc' = [pc EXCEPT ![r] = "idle"]
    /\ input' = [input EXCEPT ![r] = <<>>]
    /\ session' = [session EXCEPT ![r] = 0]
    /\ service' = [service EXCEPT ![r] = FALSE]
    /\ city' = [city EXCEPT ![r] = <<>>]
    /\ calls' = [calls EXCEPT ![r] = <<>>]
    /\ replies' = [replies EXCEPT ![r] = <<>>]
    /\ response' = [response EXCEPT ![r] = NoResponse]
    /\ raised' = [raised EXCEPT ![r] = NoExc]
    /\ exc' = [exc EXCEPT ![r] = NoExc]
    /\ result' = [result EXCEPT ![r] = NoResult]
    /\ http' = [http EXCEPT ![r] = NoHttp]
    /\ UNCHANGED <<settings, nextSession, openSessions, keyChecks>>

NoneActive == \A q \in Reqs : pc[q] = "idle"

\* requests served one after the other
Next ==
    \/ \E r \in Reqs, c \in Strings : NoneActive /\ HandlerEnter(r, c)
    \/ \E r \in Reqs : Construct(r)
    \/ \E r \in Reqs : ResolveStart(r)
    \/ \E r \in Reqs, o \in GeoOutcomes : GeoResume(r, o)
    \/ \E r \in Reqs, o \in WeatherOutcomes : WeatherResume(r, o)
    \/ \E r \in Reqs : SessionExit(r)
    \/ \E r \in Reqs : Respond(r)
    \/ \E r \in Reqs : Finish(r)

Spec == Init /\ [][Next]_vars

\* ------------------------------------------------- interleaved requests
\* Requests are coroutines of one event loop: between two awaits of one
\* request any other request may run.  The provider's answers are cut down
\* to one of each kind so that every interleaving can be explored.
Bogota == [lat |-> 4, lon |-> -74]
Madrid == [lat |-> 40, lon |-> -3]

ConcInputs == {<<" ", "a">>, <<"a", "a">>}

ConcGeoOutcomes ==
    {o \in GeoOutcomes :
        \/ o.kind = "error" /\ o.error = "ReadTimeout"
        \/ o.kind = "response" /\ o.status_code = 404
        \/ o.kind = "response" /\ o.status_code = 200
              /\ o.body \in {<<>>, <<Bogota>>, <<Madrid>>}}

ConcWeatherOutcomes ==
    {o \in WeatherOutcomes :
        \/ o.kind = "response" /\ o.status_code = 500
        \/ o.kind = "response" /\ o.status_code = 200
              /\ o.body \in
                   {[k \in {} |-> 0],
                    [main |-> [temp |-> 18, humidity |-> 72, pressure |-> 1015],
                     weather |-> <<[description |-> "d1"]>>],
                    [main |-> [temp |-> 25, humidity |-> 45, pressure |-> 1015],
                     weather |-> <<[description |-> "d2"]>>]}}

NextConc ==
    \/ \E r \in Reqs, c \in ConcInputs : HandlerEnter(r, c)
    \/ \E r \in Reqs : Construct(r)
    \/ \E r \in Reqs : ResolveStart(r)
    \/ \E r \in Reqs, o \in ConcGeoOutcomes : GeoResume(r, o)
    \/ \E r \in Reqs, o \in ConcWeatherOutcomes : WeatherResume(r, o)
    \/ \E r \in Reqs : SessionExit(r)
    \/ \E r \in Reqs : Respond(r)
    \/ \E r \in Reqs : Finish(r)

SpecConc == Init /\ [][NextConc]_vars

\* ------------------------------------------ answers that take their time
\* seconds an answered GET took, below TIMEOUT_SECONDS
Durations == {1, 9}

WithElapsed(o, t) ==
    [k \in DOMAIN o \cup {"elapsed"} |-> IF k = "elapsed" THEN t ELSE o[k]]

\* geocoding answers of every kind, each taking 1 or 9 seconds; of the
\* result lists the empty one and a single match stand for all
TimedGeoOutcomes ==
    {o \in GeoOutcomes : o.kind = "error"}
    \cup {WithElapsed(o, t) :
              o \in {g \in GeoOutcomes :
                        /\ g.kind = "response"
                        /\ g.status_code = 200 => g.body \in {<<>>, <<Bogota>>}
                        /\ g.status_code = 203 => g.body = <<>>},
              t \in Durations}

TimedWeatherOutcomes ==
    {o \in WeatherOutcomes :
        \/ o.kind = "error"
        \/ o.kind = "response" /\ ~Is2xx(o.status_code)
        \/ o.kind = "response" /\ o.status_code = 200
              /\ "weather" \in DOMAIN o.body /\ Len(o.body.weather) = 1}

\* requests served one after the other
NextTimed ==
    \/ \E r \in Reqs, c \in Strings : NoneActive /\ HandlerEnter(r, c)
    \/ \E r \in Reqs : Construct(r)
    \/ \E r \in Reqs : ResolveStart(r)
    \/ \E r \in Reqs, o \in TimedGeoOutcomes : GeoResume(r, o)
    \/ \E r \in Reqs, o \in TimedWeatherOutcomes : WeatherResume(r, o)
    \/ \E r \in Reqs : SessionExit(r)
    \/ \E r \in Reqs : Respond(r)
    \/ \E r \in Reqs : Finish(r)

\* The event loop resumes every coroutine that can run, and every GET ends:
\* with an answer, a connection failure, or the timeout it was given.
Progress(r) ==
    \/ Construct(r)
    \/ ResolveStart(r)
    \/ \E o \in TimedGeoOutcomes : GeoResume(r, o)
    \/ \E o \in TimedWeatherOutcomes : WeatherResume(r, o)
    \/ SessionExit(r)
    \/ Respond(r)

SpecTimed ==
    Init /\ [][NextTimed]_vars /\ \A r \in Reqs : WF_vars(Progress(r))

\* ------------------------------------------------ vocabulary of the claims
\* the request's resolve() is over: a report or an exception has left it
Ended(r) == pc[r] \in {"exit", "respond", "done"}

CallsTo(r, api) == Cardinality({i \in 1..Len(calls[r]) : calls[r][i].api = api})

\* the Response object the request holds is the geocoding answer
GeoAnswered(r) == response[r].kind = "response" /\ response[r].api = "geo"

\* the Response object the request holds is the conditions answer
WeatherAnswered(r) == response[r].kind = "response" /\ response[r].api = "weather"

\* t is s without its leading and trailing whitespace
IsStripOf(t, s) ==
    \E i \in 1..(Len(s) + 1) : \E j \in 0..Len(s) :
        /\ t = SubSeq(s, i, j)
        /\ \A k \in 1..Len(s) : (k < i \/ k > j) => s[k] \in Whitespace
        /\ t # <<>> => (t[1] \notin Whitespace /\ t[Len(t)] \notin Whitespace)

\* the failure kinds of the error taxonomy, read off the exception
Kind(e) ==
    IF e.type = "none" THEN "none"
    ELSE IF e.type # "HTTPException" THEN "unclassified"
    ELSE IF e.detail.msg = "no_api_key" THEN "configuration"
    ELSE IF e.detail.msg = "not_found" THEN "not_found"
    ELSE "upstream"

\* the conditions payload has the fields the provider interface promises
WellFormed(wd) ==
    /\ "main" \in DOMAIN wd
    /\ {"temp", "humidity"} \subseteq DOMAIN wd.main
    /\ "weather" \in DOMAIN wd
    /\ Len(wd.weather) >= 1
    /\ "description" \in DOMAIN wd.weather[1]

NotFoundOutcome(r) ==
    /\ Ended(r)
    /\ exc[r].type = "HTTPException"
    /\ exc[r].status_code = 404
    /\ exc[r].detail.msg = "not_found"
    /\ exc[r].detail.city = city[r]
    /\ IsStripOf(city[r], input[r])
    /\ result[r] = NoResult
    /\ CallsTo(r, "weather") = 0
    /\ pc[r] = "done" => http[r].status = 404

\* ------------------------------------------------------------------ C1
\* C1 as stated: a geocoding answer with any 2xx status and an empty result
\* list ends the request as not-found (404) for the stripped place name, and
\* no conditions call is made.
C1_AsStated ==
    \A r \in Reqs :
        (GeoAnswered(r) /\ Is2xx(response[r].status_code)
                        /\ Len(response[r].body) = 0)
            => NotFoundOutcome(r)

\* C1 amended: a geocoding answer with status 200 and an empty result list
\* ends the request as not-found (404) for the stripped place name, and no
\* conditions call is made in that request.
C1_NotFoundOnEmptyList ==
    \A r \in Reqs :
        (GeoAnswered(r) /\ response[r].status_code = 200
                        /\ Len(response[r].body) = 0)
            => NotFoundOutcome(r)

C1_Witness ==
    \E r \in Reqs :
        /\ pc[r] = "done"
        /\ GeoAnswered(r) /\ response[r].status_code = 200
        /\ Len(response[r].body) = 0
        /\ input[r] = <<" ", "a">>
        /\ http[r].status = 404
        /\ Len(calls[r]) = 1

UsesFirstEntry(r) ==
    /\ CallsTo(r, "weather") = 1
    /\ Len(calls[r]) = 2
    /\ calls[r][2].api = "weather"
    /\ calls[r][2].params.lat = response[r].body[1].lat
    /\ calls[r][2].params.lon = response[r].body[1].lon

\* C4 as stated: after a geocoding answer with any 2xx status and one or
\* more results, the conditions call is made with the latitude and longitude
\* of the first entry.
C4_AsStated ==
    \A r \in Reqs :
        (GeoAnswered(r) /\ Is2xx(response[r].status_code)
                        /\ Len(response[r].body) >= 1)
            => UsesFirstEntry(r)

\* C4 amended: after a geocoding answer with status 200 and one or more
\* results, the conditions call of the request is made with exactly the
\* latitude and longitude of the first entry of that answer.
C4_FirstEntryOnly ==
    \A r \in Reqs :
        (GeoAnswered(r) /\ response[r].status_code = 200
                        /\ Len(response[r].body) >= 1)
            => UsesFirstEntry(r)

C4_Witness ==
    \E r \in Reqs :
        /\ pc[r] = "wx_wait"
        /\ GeoAnswered(r) /\ response[r].status_code = 200
        /\ Len(response[r].body) = 2
        /\ response[r].body[1].lat # response[r].body[2].lat
        /\ response[r].body[1].lon # response[r].body[2].lon
        /\ calls[r][2].params.lat = response[r].body[1].lat
        /\ calls[r][2].params.lon = response[r].body[1].lon

\* ------------------------------------------------------------------ C5
\* C5: with no credential configured (unset or empty), the construction of
\* the service fails with the configuration failure (HTTP 500), no service
\* instance exists and the request makes no outbound call.
C5_NoCredentialFailsFast ==
    settings.OPENWEATHER_API_KEY \in {PyNone, ""} =>
        \A r \in Reqs :
            /\ ~service[r]
            /\ calls[r] = <<>>
            /\ replies[r] = <<>>
            /\ pc[r] \in {"idle", "construct", "exit", "respond", "done"}
            /\ Ended(r) => /\ Kind(exc[r]) = "configuration"
                           /\ exc[r].status_code = 500
                           /\ result[r] = NoResult
            /\ pc[r] = "done" => http[r].status = 500

C5_Witness ==
    \E r \in Reqs :
        /\ settings.OPENWEATHER_API_KEY = ""
        /\ pc[r] = "done"
        /\ Kind(exc[r]) = "configuration"
        /\ http[r].status = 500
        /\ calls[r] = <<>>

\* ------------------------------------------------------------------ C6
BothAnswered2xx(r) ==
    /\ Ended(r)
    /\ Len(replies[r]) = 2
    /\ \A i \in 1..2 : replies[r][i].error = "" /\ Is2xx(replies[r][i].status)

ReportForStrippedName(r) ==
    /\ result[r] # NoResult
    /\ exc[r] = NoExc
    /\ IsStripOf(result[r].city, input[r])
    /\ calls[r][1].api = "geo"
    /\ calls[r][1].params.q = result[r].city

\* C6 as stated: whenever both provider calls succeed (2xx), resolve returns
\* a report whose city is the stripped input, and the geocoding call was made
\* with that stripped name.
C6_AsStated ==
    \A r \in Reqs : BothAnswered2xx(r) => ReportForStrippedName(r)

\* C6 amended: the geocoding call is always made with the stripped input;
\* whenever both provider calls are answered with status 200 and the
\* conditions payload has main.temp, main.humidity and weather[0].description,
\* resolve returns a report whose city is that same stripped name; and no
\* report has any other city.
C6_CityIsStrippedInput ==
    \A r \in Reqs :
        /\ Len(calls[r]) >= 1 =>
              /\ calls[r][1].api = "geo"
              /\ IsStripOf(calls[r][1].params.q, input[r])
        /\ result[r] # NoResult => ReportForStrippedName(r)
        /\ (/\ BothAnswered2xx(r)
            /\ \A i \in 1..2 : replies[r][i].status = 200
            /\ WellFormed(response[r].body))
              => ReportForStrippedName(r)

C6_Witness ==
    \E r \in Reqs :
        /\ pc[r] = "done"
        /\ input[r] = <<"a", " ">>
        /\ result[r] # NoResult
        /\ result[r].city = <<"a">>
        /\ calls[r][1].params.q = <<"a">>
        /\ http[r].status = 200

\* ------------------------------------------------------------------ C7
\* C7: every returned report has the temperature of the payload's main.temp,
\* the humidity of its main.humidity and the description of the first entry
\* of its weather list, and the HTTP body is that report.
C7_ProjectionOfPayload ==
    \A r \in Reqs :
        result[r] # NoResult =>
            /\ WeatherAnswered(r)
            /\ response[r].status_code = 200
            /\ WellFormed(response[r].body)
            /\ result[r].temperature = response[r].body.main.temp
            /\ result[r].humidity = response[r].body.main.humidity
            /\ result[r].description = response[r].body.weather[1].description
            /\ DOMAIN result[r] = {"city", "temperature", "humidity", "description"}
            /\ pc[r] = "done" => http[r] = [status |-> 200, body |-> result[r]]

C7_Witness ==
    \E r \in Reqs :
        /\ pc[r] = "done"
        /\ result[r] # NoResult
        /\ Len(response[r].body.weather) = 2
        /\ "description" \in DOMAIN response[r].body.weather[2]
        /\ response[r].body.weather[2].description # result[r].description
        /\ result[r].temperature = 25
        /\ result[r].humidity = 45
        /\ result[r].description = "d2"
        /\ response[r].body.weather[1].description = "d2"

RaisedByClient(e) ==
    \/ e.type \in TransportErrors
    \/ e.type = "HTTPException"
          /\ e.detail.msg \in {"geo_error", "not_found", "weather_error"}

FailedReply(p) == p.error # "" \/ ~Is2xx(p.status)

\* C10: a request issues at most one geocoding call and at most one
\* conditions call, the geocoding call first, and once an outbound call has
\* failed the request issues no further call.
C10_NoRetry ==
    \A r \in Reqs :
        /\ CallsTo(r, "geo") <= 1
        /\ CallsTo(r, "weather") <= 1
        /\ Len(calls[r]) = CallsTo(r, "geo") + CallsTo(r, "weather")
        /\ Len(replies[r]) <= Len(calls[r])
        /\ \A i \in 1..Len(replies[r]) :
              /\ replies[r][i].api = calls[r][i].api
              /\ FailedReply(replies[r][i]) => Len(calls[r]) = i /\ Ended(r)

C10_Witness ==
    \E r \in Reqs :
        /\ pc[r] = "done"
        /\ Len(replies[r]) = 1
        /\ replies[r][1].error = "ReadTimeout"
        /\ Len(calls[r]) = 1
        /\ http[r].status = 500

\* ----------------------------------------------------------------- C11
\* C11: within a request the conditions call is issued only after the
\* geocoding call has been answered successfully and has yielded
\* coordinates: while the geocoding call is outstanding there is no
\* conditions call, neither in flight nor finished.
C11_ConditionsAfterGeocoding ==
    \A r \in Reqs :
        /\ pc[r] \in {"idle", "construct", "resolve", "geo_wait"} =>
              /\ CallsTo(r, "weather") = 0
              /\ replies[r] = <<>>
        /\ CallsTo(r, "weather") >= 1 =>
              /\ Len(calls[r]) = 2
              /\ calls[r][1].api = "geo" /\ calls[r][2].api = "weather"
              /\ Len(replies[r]) >= 1
              /\ replies[r][1].api = "geo"
              /\ replies[r][1].error = ""
              /\ replies[r][1].status = 200
              /\ calls[r][2].params.lat \in Latitudes
              /\ calls[r][2].params.lon \in Longitudes
        /\ pc[r] = "wx_wait" =>
              /\ GeoAnswered(r)
              /\ Len(response[r].body) >= 1
              /\ Len(replies[r]) = 1

C11_Witness ==
    \E r \in Reqs :
        /\ pc[r] = "wx_wait"
        /\ replies[r] = <<[api |-> "geo", error |-> "", status |-> 200,
                           elapsed |-> 0]>>
        /\ Len(calls[r]) = 2
        /\ calls[r][2].params.lat = 40
        /\ calls[r][2].params.lon = -3

\* ----------------------------------------------------------------- C12
\* what the request ends with when it runs alone: a function of its own
\* place name, the credential and the answers to its own calls
OwnOutcome(r) ==
    IF settings.OPENWEATHER_API_KEY \in {PyNone, ""}
    THEN /\ exc[r] = HTTPException(500, [msg |-> "no_api_key"])
         /\ result[r] = NoResult
         /\ calls[r] = <<>>
    ELSE /\ IsStripOf(city[r], input[r])
         /\ Len(replies[r]) \in {1, 2}
         /\ LET p == replies[r][Len(replies[r])]
                a == IF Len(replies[r]) = 1 THEN "geo" ELSE "weather" IN
              /\ p.api = a
              /\ IF p.error # ""
                 THEN exc[r] = PyError(p.error, a) /\ result[r] = NoResult
                 ELSE /\ response[r].kind = "response"
                      /\ response[r].api = a
                      /\ response[r].status_code = p.status
                      /\ IF p.status # 200
                         THEN /\ exc[r] = HTTPException(p.status, [msg |-> a \o "_error"])
                              /\ result[r] = NoResult
                         ELSE IF a = "geo"
                         THEN /\ response[r].body = <<>>
                              /\ exc[r] = HTTPException(404, [msg |-> "not_found",
                                                              city |-> city[r]])
                              /\ result[r] = NoResult
                         ELSE IF WellFormed(response[r].body)
                         THEN /\ exc[r] = NoExc
                              /\ result[r] =
                                   [city |-> city[r],
                                    temperature |-> response[r].body.main.temp,
                                    humidity |-> response[r].body.main.humidity,
                                    description |->
                                        response[r].body.weather[1].description]
                         ELSE /\ exc[r].type \in {"KeyError", "IndexError"}
                              /\ result[r] = NoResult

\* C12: under any interleaving of requests, a request's calls go through its
\* own session, which no other request in flight has; it resolves through a
\* service instance it constructed itself; its conditions call carries the
\* coordinates of its own geocoding answer; and what it ends with is what it
\* would end with alone, given the same answers.
C12_SharedNothing ==
    \A r \in Reqs :
        /\ \A q \in Reqs \ {r} :
              (session[r] # 0 /\ session[q] # 0) => session[r] # session[q]
        /\ pc[r] # "idle" => session[r] # 0
        /\ \A i \in 1..Len(calls[r]) : calls[r][i].session = session[r]
        /\ pc[r] \in {"resolve", "geo_wait", "wx_wait"} => service[r]
        /\ calls[r] # <<>> => service[r]
        /\ (GeoAnswered(r) /\ response[r].status_code = 200
                           /\ Len(response[r].body) >= 1) => UsesFirstEntry(r)
        /\ Ended(r) => OwnOutcome(r)
        /\ pc[r] = "done" =>
              http[r].status = (IF exc[r] = NoExc THEN 200
                                ELSE IF exc[r].type = "HTTPException"
                                     THEN exc[r].status_code ELSE 500)

\* two requests in flight at once, each waiting for the conditions of its
\* own place
C12_Witness ==
    \E r, q \in Reqs :
        /\ r # q
        /\ pc[r] = "wx_wait" /\ pc[q] = "wx_wait"
        /\ input[r] # input[q]
        /\ calls[r][1].params.q = <<"a">> /\ calls[q][1].params.q = <<"a", "a">>
        /\ calls[r][2].params.lat = 4 /\ calls[q][2].params.lat = 40
        /\ calls[r][2].session # calls[q][2].session

\* ----------------------------------------------------------------- C13
SessionHeld(r) ==
    /\ pc[r] = "idle" => session[r] = 0 /\ ~service[r] /\ calls[r] = <<>>
    /\ pc[r] \in {"construct", "resolve", "geo_wait", "wx_wait", "exit"} =>
          session[r] # 0 /\ session[r] \in openSessions
    /\ pc[r] \in {"respond", "done"} =>
          session[r] # 0 /\ session[r] \notin openSessions
    /\ \A i \in 1..Len(calls[r]) : calls[r][i].session = session[r]
    /\ session[r] < nextSession
    /\ \A q \in Reqs \ {r} : session[r] # 0 => session[q] # session[r]

SessionStep(r) ==
    /\ (calls'[r] # calls[r] /\ calls'[r] # <<>>) =>
          /\ session'[r] = session[r]
          /\ session[r] \in openSessions
          /\ session[r] \in openSessions'
    /\ (session'[r] # session[r] /\ session'[r] # 0) =>
          /\ session'[r] = nextSession
          /\ nextSession' = nextSession + 1
          /\ session'[r] \in openSessions'
          /\ pc[r] = "idle"
          /\ ~service'[r]
          /\ calls'[r] = <<>>

\* C13: a request has its session before it constructs the service and
\* before any call, the session is a new one, it is open whenever a call is
\* sent or in flight, and it is closed when the request is answered, however
\* the request ends; no session stays open without a request in flight.
C13_SessionScopedToRequest ==
    /\ [](\A r \in Reqs : SessionHeld(r))
    /\ [](openSessions \subseteq {session[r] : r \in Reqs})
    /\ [][\A r \in Reqs : SessionStep(r)]_vars

\* the second request ends on a malformed payload with its session closed
C13_Witness ==
    \E r \in Reqs :
        /\ pc[r] = "done"
        /\ exc[r].type = "KeyError"
        /\ Len(calls[r]) = 2
        /\ session[r] = 2
        /\ openSessions = {}

\* ----------------------------------------------------------------- C14
\* C14 as stated: over any sequence of handled requests the credential check
\* is evaluated a single time.
C14_AsStated == keyChecks <= 1

\* C14 amended: the credential check is evaluated once per service
\* construction and not again during resolve; as the handler constructs a
\* service for every request, it is evaluated exactly once in each request.
C14_CheckedOncePerRequest ==
    keyChecks = (nextSession - 1) - Cardinality({r \in Reqs : pc[r] = "construct"})

\* the second request of a sequence is through, having resolved
C14_Witness ==
    \E r \in Reqs :
        /\ keyChecks = 2
        /\ nextSession = 3
        /\ pc[r] = "done"
        /\ result[r] # NoResult

\* ----------------------------------------------------------------- C15
\* the provider answered the request's last call with a non-success status
ProviderRefused(r) ==
    /\ Len(replies[r]) >= 1
    /\ replies[r][Len(replies[r])].error = ""
    /\ ~Is2xx(replies[r][Len(replies[r])].status)

\* C15: a request is answered 404 (the not-found outcome) only if its
\* geocoding call was answered successfully with zero matches, and a request
\* whose provider call was answered with a non-success status is never
\* answered 404.
C15_NotFoundOnlyOnZeroMatches ==
    \A r \in Reqs :
        pc[r] = "done" =>
            /\ http[r].status = 404 =>
                  /\ Len(replies[r]) = 1
                  /\ Is2xx(replies[r][1].status)
                  /\ GeoAnswered(r)
                  /\ Len(response[r].body) = 0
            /\ ProviderRefused(r) => http[r].status # 404

\* ----------------------------------------------------------------- C16
\* the last answer is a conditions answer, after a geocoding answer that gave
\* coordinates
ConditionsAnswered(r) ==
    /\ Len(replies[r]) = 2
    /\ WeatherAnswered(r)

\* the request failed with a lookup fault and nothing else: no report, not
\* even a partial one, and a plain 500 for the caller
UnclassifiedFailure(r) ==
    /\ Ended(r)
    /\ result[r] = NoResult
    /\ exc[r].type \in {"KeyError", "IndexError"}
    /\ Kind(exc[r]) = "unclassified"
    /\ pc[r] = "done" =>
          /\ http[r].status = 500
          /\ "body" \notin DOMAIN http[r]

\* C16 as stated: when both provider calls succeed (2xx) and the conditions
\* payload lacks main, main.temp, main.humidity, weather, a first weather
\* entry or its description, the request has no report and fails with an
\* unclassified failure, answered 500.
C16_AsStated ==
    \A r \in Reqs :
        (/\ ConditionsAnswered(r)
         /\ Is2xx(response[r].status_code)
         /\ ~WellFormed(response[r].body))
            => UnclassifiedFailure(r)

\* C16 amended: when both provider calls are answered with status 200 and
\* the conditions payload lacks main, main.temp, main.humidity, weather, a
\* first weather entry or its description, the request has no report and
\* fails with an unclassified failure, answered 500.
C16_MalformedPayloadUnclassified ==
    \A r \in Reqs :
        (/\ ConditionsAnswered(r)
         /\ replies[r][1].status = 200
         /\ response[r].status_code = 200
         /\ ~WellFormed(response[r].body))
            => UnclassifiedFailure(r)

\* a payload with a complete main section and an empty weather list
C16_Witness ==
    \E r \in Reqs :
        /\ pc[r] = "done"
        /\ ConditionsAnswered(r)
        /\ response[r].status_code = 200
        /\ response[r].body = [main |-> [temp |-> 18, humidity |-> 72,
                                         pressure |-> 1015],
                               weather |-> <<>>]
        /\ exc[r] = PyError("IndexError", "weather")
        /\ http[r].status = 500

\* ----------------------------------------------------------------- C17
\* the i-th GET of the request ended in a timeout or a connection failure
TransportFailed(r, i) ==
    /\ i <= Len(replies[r])
    /\ replies[r][i].error \in TransportErrors

\* C17: every outbound call carries the configured timeout, the conditions
\* call the same as the geocoding call however long the geocoding call took;
\* a timeout or connection failure of either call ends the request with that
\* transport failure, without a report and without a further call, so none
\* to the conditions endpoint when it was the geocoding call that failed.
C17_IndependentTimeouts ==
    \A r \in Reqs :
        /\ \A i \in 1..Len(calls[r]) :
              /\ calls[r][i].timeout = settings.TIMEOUT_SECONDS
              /\ calls[r][i].timeout = calls[r][1].timeout
        /\ \A i \in 1..2 :
              TransportFailed(r, i) =>
                  /\ Ended(r)
                  /\ exc[r].type = replies[r][i].error
                  /\ Kind(exc[r]) = "unclassified"
                  /\ result[r] = NoResult
                  /\ Len(calls[r]) = i
                  /\ i = 1 => CallsTo(r, "weather") = 0
                  /\ pc[r] = "done" => http[r].status = 500

\* the geocoding GET took 9 of the 10 seconds, and the conditions GET, sent
\* with the full 10 seconds, timed out
C17_Witness ==
    \E r \in Reqs :
        /\ pc[r] = "done"
        /\ Len(replies[r]) = 2
        /\ replies[r][1].elapsed = 9
        /\ calls[r][2].timeout = 10
        /\ replies[r][2].error = "ReadTimeout"
        /\ http[r].status = 500

\* ----------------------------------------------------------------- C18
\* the place name given is empty or made of whitespace only
BlankInput(r) == \A k \in 1..Len(input[r]) : input[r][k] \in Whitespace

\* resolve has started for the request
Resolving(r) == service[r] /\ pc[r] \notin {"idle", "construct", "resolve"}

StartupSettings == \E k \in ApiKeys : settings = AppSettings(k)

\* C19: no step of any request, ending well or badly, changes the
\* process-wide settings: credential, endpoint addresses, timeout, units and
\* language stay what they were at startup, and every call is sent with them.
C19_SettingsNeverChange ==
    /\ [](StartupSettings /\
            \A r \in Reqs : \A i \in 1..Len(calls[r]) :
                /\ calls[r][i].params.appid = settings.OPENWEATHER_API_KEY
                /\ calls[r][i].url \in {settings.GEOCODING_URL, settings.WEATHER_URL})
    /\ [][settings' = settings]_vars

\* two requests were served, the first was closed and the second failed
C19_Witness ==
    \E r \in Reqs :
        /\ nextSession = 3
        /\ pc[r] = "done"
        /\ exc[r] # NoExc
        /\ Len(calls[r]) >= 1
        /\ settings = AppSettings("k")

\* ----------------------------------------------------------------- C20
\* the steps of a request in the order the code takes them
PcRank(p) ==
    CASE p = "idle"      -> 0
      [] p = "construct" -> 1
      [] p = "resolve"   -> 2
      [] p = "geo_wait"  -> 3
      [] p = "wx_wait"   -> 4
      [] p = "exit"      -> 5
      [] p = "respond"   -> 6
      [] p = "done"      -> 7

\* a request has a report or a failure, and not both, from the moment
\* resolve is over, and neither before
OneOutcome(r) ==
    /\ Ended(r) => ((result[r] # NoResult) <=> (exc[r] = NoExc))
    /\ (pc[r] # "idle" /\ ~Ended(r)) => (result[r] = NoResult /\ exc[r] = NoExc)
    /\ pc[r] = "done" => (http[r].status = 200 <=> result[r] # NoResult)

\* a step moves a request forward only, and leaves the outcome of a request
\* whose resolve is over as it is
ForwardStep(r) ==
    /\ pc'[r] # pc[r] =>
          \/ PcRank(pc'[r]) > PcRank(pc[r])
          \/ pc[r] = "done" /\ pc'[r] = "idle"
    /\ (Ended(r) /\ pc'[r] # "idle") =>
          (result'[r] = result[r] /\ exc'[r] = exc[r])

\* C20: given that every outbound call ends (answer, failure or timeout),
\* every request that was taken up is eventually answered, with a report or
\* with one failure and never with both; on its way it never goes back to a
\* step it has left.
C20_TerminatesWithOneOutcome ==
    /\ [](\A r \in Reqs : OneOutcome(r))
    /\ [][\A r \in Reqs : ForwardStep(r)]_vars
    /\ \A r \in Reqs : (pc[r] # "idle") ~> (pc[r] = "done")

\* a request was answered with a report after two answered calls
C20_Witness ==
    \E r \in Reqs :
        /\ pc[r] = "done"
        /\ Len(replies[r]) = 2
        /\ replies[r][1].elapsed = 1
        /\ result[r] # NoResult
        /\ exc[r] = NoExc
        /\ http[r] = [status |-> 200, body |-> result[r]]

TypeOK ==
    /\ settings \in {AppSettings(k) : k \in ApiKeys}
    /\ \A r \in Reqs :
         /\ pc[r] \in {"idle", "construct", "resolve", "geo_wait", "wx_wait",
                       "exit", "respond", "done"}
         /\ input[r] \in Strings
         /\ session[r] \in 0..MaxSessions
         /\ Len(calls[r]) <= 2
====
